---------------------------- MODULE Spec2Model ----------------------------
(***************************************************************************)
(* A model of ophyd's callback dispatcher (src/ophyd/_dispatch.py):        *)
(* _CallbackThread workers draining FIFO queues, the EventDispatcher that   *)
(* owns them, and wrap_callback, which turns a callback into a callable     *)
(* that enqueues a task instead of running the callback.                    *)
(*                                                                          *)
(* Threads of the model: the workers (one per entry of _threads), one       *)
(* controller thread that calls stop(), one producer thread that calls      *)
(* wrap_callback, the wrapped callables and schedule_utility_task, and one  *)
(* observer thread that calls is_alive().                                   *)
(***************************************************************************)
EXTENDS Naturals, Sequences, FiniteSets

VARIABLES
    stop_event,        \* EventDispatcher._stop_event: is the Event set
    threads,           \* EventDispatcher._threads: the names it maps, in insertion order
    queue,             \* the queue.Queue objects: queue id -> sequence of tasks
    pc,                \* where each worker is in _CallbackThread.run
    current_callback,  \* _CallbackThread.current_callback of each worker
    stop_pc,           \* where the controller is in EventDispatcher.stop
    to_join,           \* stop(): what is left of list(self._threads.items())
    stops,             \* number of calls of stop() that have returned
    held,              \* the producer's callable: the last result of wrap_callback
    wrap_call,         \* history: <<event_type, callback>> of the last wrap_callback call
    last_call,         \* history: the last call of a wrapped callable: its arguments,
                       \*   and was the callable the result of wrapping a wrapped one
    next_id,           \* identity of the next task tuple to be created
    enq,               \* history: queue id -> ids in the order they were put
    taken,             \* history: worker -> ids in the order it got them
    invoked,           \* history: worker -> ids whose callback it called (line 42)
    stop_mark,         \* history: next_id when stop() was first invoked (0: never)
    alive_pc,          \* where the observer is in EventDispatcher.is_alive
    to_scan,           \* is_alive(): what is left of self.threads.values()
    alive_result       \* what the last call of is_alive() returned

vars == <<stop_event, threads, queue, pc, current_callback, stop_pc, to_join,
          stops, held, wrap_call, last_call, next_id, enq, taken, invoked,
          stop_mark, alive_pc, to_scan, alive_result>>

\* what the workers own, what the controller owns, what the producer owns,
\* what the observer owns
workerVars == <<pc, current_callback, taken, invoked>>
stopVars == <<stop_pc, to_join, stops, stop_mark>>
producerVars == <<held, wrap_call, last_call>>
aliveVars == <<alive_pc, to_scan, alive_result>>

----------------------------------------------------------------------------
(* Bounds of the model *)

\* number of tasks the producer creates in one run
MaxTasks == 2
\* number of times the controller calls stop()
MaxStops == 2
\* number of calls of the held callable when wrap_callback is exercised alone
MaxCalls == 1
\* number of tasks the producer creates while is_alive() is observed
MaxObservedTasks == 1
\* number of tasks the producer creates in a run with fair scheduling
MaxFairTasks == 1
\* number of tasks the producer creates in a run with a callback that hangs
MaxHangTasks == 2
\* utility_threads given to the constructor (the default is 4)
UtilityThreads == 2

----------------------------------------------------------------------------
(* Names, queues and values *)

None == "None"

\* current_callback = None (line 14); a tuple once a task has been run
NoCallback == <<>>

\* the three named categories, in the order __init__ starts them
NamedThreads == <<"metadata", "monitor", "get_put">>

\* f'util{i}' for i in range(utility_threads)
UtilityNames ==
    SubSeq(<<"util0", "util1", "util2", "util3">>, 1, UtilityThreads)

\* the keys of _threads after __init__, in insertion order
ThreadNames == NamedThreads \o UtilityNames

Range(s) == {s[i] : i \in 1..Len(s)}

Workers == Range(ThreadNames)

UtilityQueue == "utility"

\* a constructor that hands the utility queue to every thread it starts
QueueOf_AllShared(name) == UtilityQueue

\* the queue a worker is bound to: its own, or the shared utility queue
QueueOf(name) ==
    IF name \in Range(UtilityNames) THEN UtilityQueue ELSE name

QueueIds == {QueueOf(w) : w \in Workers}

\* Callbacks a producer may hand over.  on_value returns, on_error raises an
\* Exception, on_exit raises a BaseException that is no Exception (SystemExit),
\* partial_cb is a callable without __name__ (a functools.partial object).
Callbacks == {"on_value", "on_error", "on_exit", "partial_cb"}

HasName(cb) == cb # "partial_cb"

\* how a call of the callback ends
Outcome(cb) ==
    CASE cb = "on_error" -> "Exception"
      [] cb = "on_exit"  -> "BaseException"
      [] OTHER           -> "return"

\* The arguments of one call: (args, kwargs); kwargs is a set of key/value
\* pairs.  EventCall is the call an event source makes (a value, and the pvname
\* keyword); UtilityCall is a call without arguments.
EventCall == [args |-> <<1>>, kwargs |-> {<<"pvname", "pv1">>}]

UtilityCall == [args |-> <<>>, kwargs |-> {}]

CallArgs == {EventCall, UtilityCall}

\* no wrapped callable has been called yet
NoCall == [args |-> <<>>, kwargs |-> {}, twice |-> FALSE]

\* kwargs.get(key)
KwGet(kwargs, key) ==
    IF \E p \in kwargs : p[1] = key
    THEN (CHOOSE p \in kwargs : p[1] = key)[2]
    ELSE None

\* the tuple (callback, args, kwargs); id is the identity of the tuple object
Task(id, callback, call) ==
    [id |-> id, callback |-> callback, args |-> call.args,
     kwargs |-> call.kwargs]

\* A callable value.  fn names the function at the bottom; layers lists, from
\* the innermost outwards, the callback_queue of every closure wrap_callback
\* put around it.  A plain callback has no layer and no _wrapped_callback
\* attribute.  NoneValue is Python's None.
Plain(cb) == [fn |-> cb, layers |-> <<>>]

NoneValue == Plain(None)

PlainCallables == {Plain(cb) : cb \in Callbacks}

\* getattr(callback, '_wrapped_callback', False): line 162 sets the attribute
\* on every closure
IsWrapped(c) == c.layers # <<>>

\* the closure variables of a wrapped callable
CallbackQueue(w) == w.layers[Len(w.layers)]

WrappedCallback(w) ==
    [fn |-> w.fn, layers |-> SubSeq(w.layers, 1, Len(w.layers) - 1)]

\* event_type values a caller may pass: every thread name and an unknown one
EventTypes == Workers \cup {"bogus"}

\* the outcome of a wrap_callback call whose assert fails
AssertionError == Plain("AssertionError")

Ids(s) == [i \in 1..Len(s) |-> s[i].id]

----------------------------------------------------------------------------
(* wrap_callback *)

\* a wrap_callback without the test of line 152 for wrapped callables
WrapCallback_NoSkip(thr, event_type, callback) ==
    IF callback = NoneValue
    THEN callback
    ELSE IF event_type \notin Range(thr)
         THEN AssertionError
         ELSE [fn |-> callback.fn,
               layers |-> Append(callback.layers, QueueOf(event_type))]

\* a wrap_callback without the assert of line 155, finding the queue by the
\* name alone
WrapCallback_NoAssert(thr, event_type, callback) ==
    IF callback = NoneValue \/ IsWrapped(callback)
    THEN callback
    ELSE [fn |-> callback.fn,
          layers |-> Append(callback.layers, QueueOf(event_type))]

\* a wrap_callback that binds a wrapped callable anew to the queue of
\* event_type
WrapCallback_Rebind(thr, event_type, callback) ==
    IF callback = NoneValue
    THEN callback
    ELSE IF event_type \notin Range(thr)
         THEN AssertionError
         ELSE [fn |-> callback.fn, layers |-> <<QueueOf(event_type)>>]

\* wrap_callback(dispatcher, event_type, callback): the value returned, or
\* AssertionError when the assert of line 155 fails
WrapCallback(thr, event_type, callback) ==
    IF callback = NoneValue \/ IsWrapped(callback)
    THEN callback
    ELSE IF event_type \notin Range(thr)
         THEN AssertionError
         ELSE [fn |-> callback.fn,
               layers |-> Append(callback.layers, QueueOf(event_type))]

\* a put that inserts at the head of the queue
Put_AtHead(q, item) == <<item>> \o q

\* queue.put(item) on an unbounded queue
Put(q, item) == Append(q, item)

\* a wrapped callable that drops the keyword arguments of the call
WrappedCall_NoKwargs(w, id, call) ==
    [queue EXCEPT ![CallbackQueue(w)] =
        Put(@, Task(id, WrappedCallback(w),
                    [args |-> call.args, kwargs |-> {}]))]

\* calling wrapped(*args, **kwargs): the queues after the call
WrappedCall(w, id, call) ==
    [queue EXCEPT ![CallbackQueue(w)] =
        Put(@, Task(id, WrappedCallback(w), call))]

----------------------------------------------------------------------------
(* Initial state: the constructor has returned *)

Init ==
    /\ stop_event = FALSE
    /\ threads = ThreadNames
    /\ queue = [q \in QueueIds |-> <<>>]
    /\ pc = [w \in Workers |-> "check"]
    /\ current_callback = [w \in Workers |-> NoCallback]
    /\ stop_pc = "idle"
    /\ to_join = <<>>
    /\ stops = 0
    /\ held = NoneValue
    /\ wrap_call = <<None, NoneValue>>
    /\ last_call = NoCall
    /\ next_id = 1
    /\ enq = [q \in QueueIds |-> <<>>]
    /\ taken = [w \in Workers |-> <<>>]
    /\ invoked = [w \in Workers |-> <<>>]
    /\ stop_mark = 0
    /\ alive_pc = "idle"
    /\ to_scan = <<>>
    /\ alive_result = None

----------------------------------------------------------------------------
(* The producer *)

\* held = wrap_callback(dispatcher, event_type, callback), where callback is
\* None, a plain callback or the callable the producer holds
Wrap(event_type, callback) ==
    /\ callback # AssertionError
    /\ held' = WrapCallback(threads, event_type, callback)
    /\ wrap_call' = <<event_type, callback>>
    /\ UNCHANGED <<stop_event, threads, queue, workerVars, stopVars,
                   last_call, next_id, enq, aliveVars>>

\* w(*args, **kwargs) for a callable w that wrap_callback returned
Invoke(w, call) ==
    /\ IsWrapped(w)
    /\ next_id <= MaxTasks
    /\ queue' = WrappedCall(w, next_id, call)
    /\ enq' = [enq EXCEPT ![CallbackQueue(w)] = Append(@, next_id)]
    /\ last_call' = [args |-> call.args, kwargs |-> call.kwargs,
                     twice |-> (w = held /\ IsWrapped(wrap_call[2]))]
    /\ next_id' = next_id + 1
    /\ UNCHANGED <<stop_event, threads, workerVars, stopVars, held,
                   wrap_call, aliveVars>>

\* The callables the event sources registered while the dispatcher was
\* running: wrap_callback(dispatcher, event_type, callback) for the named
\* categories, right after construction
Registered ==
    {WrapCallback(ThreadNames, e, Plain(cb)) :
        e \in Range(NamedThreads), cb \in Callbacks}

\* dispatcher.schedule_utility_task(callback, *args, **kwargs)
ScheduleUtilityTask(cb, call) ==
    /\ next_id <= MaxTasks
    /\ queue' = [queue EXCEPT ![UtilityQueue] =
                    Put(@, Task(next_id, Plain(cb), call))]
    /\ enq' = [enq EXCEPT ![UtilityQueue] = Append(@, next_id)]
    /\ next_id' = next_id + 1
    /\ UNCHANGED <<stop_event, threads, workerVars, stopVars, producerVars,
                   aliveVars>>

----------------------------------------------------------------------------
(* _CallbackThread.run *)

\* line 34: while not self.stop_event.is_set(); lines 49-50 when it is set
WorkerCheck(w) ==
    /\ pc[w] = "check"
    /\ pc' = [pc EXCEPT ![w] = IF stop_event THEN "exited" ELSE "get"]
    /\ UNCHANGED <<stop_event, threads, queue, current_callback, taken,
                   invoked, stopVars, producerVars, next_id, enq, aliveVars>>

\* a timeout that polls again without going back to the loop test
WorkerTimeout_NoRecheck(w) ==
    /\ pc[w] = "get"
    /\ queue[QueueOf(w)] = <<>>
    /\ UNCHANGED vars

\* a run() that does not catch queue.Empty
WorkerTimeout_Raises(w) ==
    /\ pc[w] = "get"
    /\ queue[QueueOf(w)] = <<>>
    /\ pc' = [pc EXCEPT ![w] = "crashed"]
    /\ UNCHANGED <<stop_event, threads, queue, current_callback, taken,
                   invoked, stopVars, producerVars, next_id, enq, aliveVars>>

\* lines 36-38: queue.get times out with queue.Empty
WorkerTimeout(w) ==
    /\ pc[w] = "get"
    /\ queue[QueueOf(w)] = <<>>
    /\ pc' = [pc EXCEPT ![w] = "check"]
    /\ UNCHANGED <<stop_event, threads, queue, current_callback, taken,
                   invoked, stopVars, producerVars, next_id, enq, aliveVars>>

\* queue.get(): the item a get returns from a non-empty queue
GetItem(q) == Head(q)

\* a get that leaves the item in the queue
GetRest_Keep(q) == q

\* a get that empties the queue
GetRest_Clear(q) == <<>>

\* queue.get(): what the get leaves in the queue
GetRest(q) == Tail(q)

\* workers that hold one lock from the get to the end of the callback
WorkerGet_GlobalLock(w) ==
    /\ pc[w] = "get"
    /\ queue[QueueOf(w)] # <<>>
    /\ \A v \in Workers : pc[v] \notin {"running", "hung"}
    /\ LET t == GetItem(queue[QueueOf(w)]) IN
        /\ queue' = [queue EXCEPT ![QueueOf(w)] = GetRest(@)]
        /\ taken' = [taken EXCEPT ![w] = Append(@, t.id)]
        /\ IF HasName(t.callback.fn)
           THEN /\ current_callback' = [current_callback EXCEPT ![w] =
                        <<t.callback.fn, KwGet(t.kwargs, "pvname")>>]
                /\ invoked' = [invoked EXCEPT ![w] = Append(@, t.id)]
                /\ pc' = [pc EXCEPT ![w] = "running"]
           ELSE /\ pc' = [pc EXCEPT ![w] = "check"]
                /\ UNCHANGED <<current_callback, invoked>>
    /\ UNCHANGED <<stop_event, threads, stopVars, producerVars, next_id, enq,
                   aliveVars>>

\* lines 36, 40-42: queue.get returns a task; current_callback is assigned and
\* the callback is called, unless callback.__name__ raises AttributeError,
\* which the handler of line 43 catches
WorkerGet(w) ==
    /\ pc[w] = "get"
    /\ queue[QueueOf(w)] # <<>>
    /\ LET t == GetItem(queue[QueueOf(w)]) IN
        /\ queue' = [queue EXCEPT ![QueueOf(w)] = GetRest(@)]
        /\ taken' = [taken EXCEPT ![w] = Append(@, t.id)]
        /\ IF HasName(t.callback.fn)
           THEN /\ current_callback' = [current_callback EXCEPT ![w] =
                        <<t.callback.fn, KwGet(t.kwargs, "pvname")>>]
                /\ invoked' = [invoked EXCEPT ![w] = Append(@, t.id)]
                /\ pc' = [pc EXCEPT ![w] = "running"]
           ELSE /\ pc' = [pc EXCEPT ![w] = "check"]
                /\ UNCHANGED <<current_callback, invoked>>
    /\ UNCHANGED <<stop_event, threads, stopVars, producerVars, next_id, enq,
                   aliveVars>>

\* a run() without the handler of line 43
AfterCallback_NoHandler(outcome) ==
    IF outcome = "return" THEN "check" ELSE "crashed"

\* a run() that polls again after a callback without the loop test
AfterCallback_NoTest(outcome) ==
    IF outcome \in {"return", "Exception"} THEN "get" ELSE "crashed"

\* where run() continues when the callback has ended with the given outcome:
\* a return and an Exception (line 43) lead back to the loop test, any other
\* BaseException leaves run() and ends the thread
AfterCallback(outcome) ==
    IF outcome \in {"return", "Exception"} THEN "check" ELSE "crashed"

\* lines 42-47: the callback called by worker w ends
WorkerCallbackEnds(w) ==
    /\ pc[w] = "running"
    /\ pc' = [pc EXCEPT ![w] = AfterCallback(Outcome(current_callback[w][1]))]
    /\ UNCHANGED <<stop_event, threads, queue, current_callback, taken,
                   invoked, stopVars, producerVars, next_id, enq, aliveVars>>

\* line 42: the callback worker w is executing blocks forever; the worker
\* stays inside the call
Hang(w) ==
    /\ pc[w] = "running"
    /\ \A v \in Workers : pc[v] # "hung"
    /\ pc' = [pc EXCEPT ![w] = "hung"]
    /\ UNCHANGED <<stop_event, threads, queue, current_callback, taken,
                   invoked, stopVars, producerVars, next_id, enq, aliveVars>>

\* threading.Thread.is_alive()
ThreadAlive(w) == pc[w] \notin {"exited", "crashed"}

\* EventDispatcher.is_alive(): any(thread.is_alive() for thread in
\* self.threads.values())
IsAlive == \E w \in Range(threads) : ThreadAlive(w)

----------------------------------------------------------------------------
(* EventDispatcher.stop *)

\* lines 127-128: set the event, take list(self._threads.items())
StopBegin ==
    /\ stop_pc = "idle"
    /\ stops < MaxStops
    /\ stop_event' = TRUE
    /\ to_join' = threads
    /\ stop_pc' = "joining"
    /\ stop_mark' = IF stop_mark = 0 THEN next_id ELSE stop_mark
    /\ UNCHANGED <<threads, queue, workerVars, stops, producerVars, next_id,
                   enq, aliveVars>>

\* a stop() that does not wait for the thread it joins
StopJoin_NoWait ==
    /\ stop_pc = "joining"
    /\ to_join # <<>>
    /\ to_join' = Tail(to_join)
    /\ UNCHANGED <<stop_event, threads, queue, workerVars, stop_pc, stops,
                   stop_mark, producerVars, next_id, enq, aliveVars>>

\* line 130: thread.join() returns once the thread has ended
StopJoin ==
    /\ stop_pc = "joining"
    /\ to_join # <<>>
    /\ ~ThreadAlive(Head(to_join))
    /\ to_join' = Tail(to_join)
    /\ UNCHANGED <<stop_event, threads, queue, workerVars, stop_pc, stops,
                   stop_mark, producerVars, next_id, enq, aliveVars>>

\* a stop() that returns without clearing _threads
StopReturn_NoClear ==
    /\ stop_pc = "joining"
    /\ to_join = <<>>
    /\ stop_pc' = "idle"
    /\ stops' = stops + 1
    /\ UNCHANGED <<stop_event, threads, queue, workerVars, to_join, stop_mark,
                   producerVars, next_id, enq, aliveVars>>

\* a stop() that clears the event again before it returns
StopReturn_ClearsEvent ==
    /\ stop_pc = "joining"
    /\ to_join = <<>>
    /\ threads' = <<>>
    /\ stop_event' = FALSE
    /\ stop_pc' = "idle"
    /\ stops' = stops + 1
    /\ UNCHANGED <<queue, workerVars, to_join, stop_mark, producerVars,
                   next_id, enq, aliveVars>>

\* line 132: self._threads.clear(), and stop() returns
StopReturn ==
    /\ stop_pc = "joining"
    /\ to_join = <<>>
    /\ threads' = <<>>
    /\ stop_pc' = "idle"
    /\ stops' = stops + 1
    /\ UNCHANGED <<stop_event, queue, workerVars, to_join, stop_mark,
                   producerVars, next_id, enq, aliveVars>>

----------------------------------------------------------------------------
(* EventDispatcher.is_alive *)

\* a Python bool
Bool(b) == IF b THEN "True" ELSE "False"

\* lines 110, 123: self.threads is dict(self._threads), a copy taken when the
\* call begins
IsAliveBegin ==
    /\ alive_pc = "idle"
    /\ to_scan' = threads
    /\ alive_pc' = "scan"
    /\ UNCHANGED <<stop_event, threads, queue, workerVars, stopVars,
                   producerVars, next_id, enq, alive_result>>

\* an any() that looks at the first thread only
IsAliveScan_FirstOnly ==
    /\ alive_pc = "scan"
    /\ alive_result' = Bool(to_scan # <<>> /\ ThreadAlive(Head(to_scan)))
    /\ to_scan' = <<>>
    /\ alive_pc' = "idle"
    /\ UNCHANGED <<stop_event, threads, queue, workerVars, stopVars,
                   producerVars, next_id, enq>>

\* lines 110-111: one step of any(): it asks the next thread of the copy
\* whether it is alive and returns True at the first that is, False when
\* none is left
IsAliveScan ==
    /\ alive_pc = "scan"
    /\ IF to_scan = <<>>
       THEN /\ alive_result' = Bool(FALSE)
            /\ alive_pc' = "idle"
            /\ UNCHANGED to_scan
       ELSE IF ThreadAlive(Head(to_scan))
            THEN /\ alive_result' = Bool(TRUE)
                 /\ alive_pc' = "idle"
                 /\ to_scan' = <<>>
            ELSE /\ to_scan' = Tail(to_scan)
                 /\ UNCHANGED <<alive_pc, alive_result>>
    /\ UNCHANGED <<stop_event, threads, queue, workerVars, stopVars,
                   producerVars, next_id, enq>>

----------------------------------------------------------------------------
(* EventDispatcher._debug_monitor *)

\* lines 93-100: what one round of the monitor reports: name, qsize and
\* current_callback of every thread of _threads whose queue is not empty
MonitorStatus ==
    {<<w, Len(queue[QueueOf(w)]), current_callback[w]>> :
        w \in {v \in Range(threads) : Len(queue[QueueOf(v)]) > 0}}

\* lines 92-103: one round of the monitor while the event is not set; it reads
\* and prints, and assigns nothing
DebugMonitor ==
    /\ ~stop_event
    /\ UNCHANGED vars

----------------------------------------------------------------------------

\* The running system: event sources call their registered callables, utility
\* tasks are scheduled, the workers run, the controller stops the dispatcher.
Next ==
    \/ \E w \in Registered : Invoke(w, EventCall)
    \/ \E c \in Callbacks : ScheduleUtilityTask(c, UtilityCall)
    \/ \E w \in Workers : WorkerCheck(w)
    \/ \E w \in Workers : WorkerTimeout(w)
    \/ \E w \in Workers : WorkerGet(w)
    \/ \E w \in Workers : WorkerCallbackEnds(w)
    \/ StopBegin
    \/ StopJoin
    \/ StopReturn
    \/ DebugMonitor

Spec == Init /\ [][Next]_vars

----------------------------------------------------------------------------
(* Properties of the running system (Spec) *)

IsPrefix(s, t) == Len(s) <= Len(t) /\ SubSeq(t, 1, Len(s)) = s

\* the ids a worker has dequeued, and the ids waiting in a queue
TakenIds(w) == Range(taken[w])
PendingIds(q) == Range(Ids(queue[q]))

\* how often an id occurs in the dequeue histories and in the queues
Occurrences(id) ==
    Cardinality({<<w, i>> \in Workers \X (1..MaxTasks) :
                    i <= Len(taken[w]) /\ taken[w][i] = id})
    + Cardinality({<<q, i>> \in QueueIds \X (1..MaxTasks) :
                    i <= Len(queue[q]) /\ queue[q][i].id = id})

\* s restricted to the ids of set S, order kept
Restrict(s, S) == LET In(x) == x \in S IN SelectSeq(s, In)

\* C1: a named category's worker dequeues the tasks of its queue in the order
\* they were enqueued (what it has taken, followed by what is still waiting,
\* is the enqueue order), and calls their callbacks in that same order.
C1_FifoPerCategory ==
    \A w \in Range(NamedThreads) :
        /\ taken[w] \o Ids(queue[QueueOf(w)]) = enq[QueueOf(w)]
        /\ invoked[w] = Restrict(taken[w], Range(invoked[w]))
        /\ IsPrefix(taken[w], enq[QueueOf(w)])

\* a named worker has executed two tasks of its queue
C1_Witness ==
    \E w \in Range(NamedThreads) : Len(invoked[w]) = 2 /\ pc[w] = "check"

\* C2 as written: no worker is ever ended by the callback of a task raising.
C2_NoWorkerEndedByCallback ==
    \A w \in Workers : pc[w] # "crashed"

\* C2, amended: when a callback raises an Exception, its worker goes back to
\* the loop test, the task is not put back, no other worker and no queue is
\* touched and nothing reaches the producer; a worker that a callback ended
\* was running a callback that raised a BaseException which is no Exception.
C2_ExceptionIsolated ==
    /\ [](\A w \in Workers :
            pc[w] = "crashed" =>
                Outcome(current_callback[w][1]) = "BaseException")
    /\ [][\A w \in Workers :
            (/\ pc[w] = "running"
             /\ pc'[w] # "running"
             /\ Outcome(current_callback[w][1]) = "Exception")
            => /\ pc'[w] = "check"
               /\ \A v \in Workers \ {w} : pc'[v] = pc[v]
               /\ UNCHANGED <<queue, enq, taken, invoked, producerVars,
                              next_id, stop_event, threads>>]_vars

\* a callback raised an Exception, its worker is back at the loop test and the
\* next task of its queue is waiting
C2_Witness ==
    \E w \in Workers :
        /\ pc[w] = "check"
        /\ ~stop_event
        /\ current_callback[w] # NoCallback
        /\ current_callback[w][1] = "on_error"
        /\ queue[QueueOf(w)] # <<>>

\* C3: once stop() has returned, no worker is alive, _threads is empty,
\* is_alive() is false, and no task is dequeued or called any more, whatever
\* is enqueued meanwhile.
C3_StoppedIsQuiet ==
    /\ [](stops >= 1 =>
            /\ \A w \in Workers : ~ThreadAlive(w)
            /\ threads = <<>>
            /\ ~IsAlive)
    /\ [][stops >= 1 => UNCHANGED <<taken, invoked>>]_vars

\* stop() has returned and a task enqueued after stop() was invoked waits
C3_Witness ==
    /\ stops >= 1
    /\ \E q \in QueueIds : \E id \in PendingIds(q) : id >= stop_mark

\* C4 as written: when stop() has returned, every task enqueued before stop()
\* was invoked has been dequeued for execution.
C4_AllExecutedWhenStopped ==
    stops >= 1 =>
        \A id \in 1..(stop_mark - 1) : \E w \in Workers : id \in TakenIds(w)

\* C4, amended: when stop() has returned, every task enqueued before stop()
\* was invoked has been dequeued by a worker or still waits in its queue.
C4_TakenOrPendingWhenStopped ==
    stops >= 1 =>
        \A id \in 1..(stop_mark - 1) :
            \/ \E w \in Workers : id \in TakenIds(w)
            \/ \E q \in QueueIds : id \in PendingIds(q)

\* stop() has returned, a worker has dequeued one task, and another task of
\* the same queue, enqueued before stop() was invoked, still waits
C4_Witness ==
    /\ stops >= 1
    /\ \E w \in Workers :
        /\ taken[w] # <<>>
        /\ \E id \in PendingIds(QueueOf(w)) : id < stop_mark

\* C5: every task is dequeued at most once and called at most once; a task
\* that was dequeued is never in a queue again.
C5_AtMostOnce ==
    /\ \A id \in 1..MaxTasks : Occurrences(id) <= 1
    /\ \A w \in Workers : IsPrefix(invoked[w], Restrict(taken[w], Range(invoked[w])))
    /\ \A w \in Workers : Cardinality(Range(invoked[w])) = Len(invoked[w])

\* two utility workers have each taken one task of the shared queue
C5_Witness ==
    \E u1, u2 \in Range(UtilityNames) :
        u1 # u2 /\ Len(taken[u1]) = 1 /\ Len(taken[u2]) = 1

\* C9: a call of stop() after an earlier call has returned finds nothing to
\* join, so it cannot block, and none of its steps changes the event (still
\* set), _threads (still empty), a queue or a worker.
C9_SecondStopIsNoOp ==
    /\ []((stops >= 1 /\ stop_pc = "joining") =>
            (to_join = <<>> /\ stop_event /\ threads = <<>>))
    /\ [][(stops >= 1 /\ stop_pc' # stop_pc) =>
            /\ stop_event /\ stop_event'
            /\ threads = <<>> /\ threads' = <<>>
            /\ UNCHANGED <<queue, enq, workerVars, producerVars, next_id>>]_vars

\* stop() has returned twice
C9_Witness == stops = 2 /\ stop_pc = "idle"

\* C10: the event is unset after construction, only the first step of stop()
\* sets it, and once set it stays set: no step of a worker, of the producer,
\* of the monitor or of the rest of stop() clears it.
C10_StopEventOneWay ==
    /\ ~stop_event
    /\ [][stop_event => stop_event']_vars
    /\ [][(~stop_event /\ stop_event') =>
            (stop_pc = "idle" /\ stop_pc' = "joining")]_vars

\* the event is set, stop() has returned, and a worker had run a callback
C10_Witness ==
    /\ stop_event
    /\ stops >= 1
    /\ \E w \in Workers : invoked[w] # <<>>

\* C13 as written: as long as the event is not set every worker is alive.
C13_AllAliveUntilStop ==
    ~stop_event => \A w \in Workers : ThreadAlive(w)

\* C13, amended: as long as the event is not set, _threads holds every worker
\* and none has left its loop; a worker ends only at the loop test with the
\* event set, or inside a callback that raises a BaseException which is no
\* Exception, never by an Exception or an empty queue; is_alive() is true
\* while the event is not set and some worker was not ended by such a
\* callback.
C13_AliveUntilStopOrExit ==
    /\ [](~stop_event =>
            /\ threads = ThreadNames
            /\ \A w \in Workers : pc[w] # "exited"
            /\ ((\E w \in Workers : pc[w] # "crashed") => IsAlive))
    /\ [][\A w \in Workers :
            (ThreadAlive(w) /\ ~ThreadAlive(w)') =>
                \/ pc[w] = "check" /\ stop_event /\ pc'[w] = "exited"
                \/ /\ pc[w] = "running"
                   /\ Outcome(current_callback[w][1]) = "BaseException"
                   /\ pc'[w] = "crashed"]_vars

\* the event is not set; one worker was ended by its callback, another has
\* survived a callback that raised an Exception and polls its empty queue
C13_Witness ==
    /\ ~stop_event
    /\ \E w \in Workers : pc[w] = "crashed"
    /\ \E v \in Workers :
        /\ pc[v] = "get"
        /\ queue[QueueOf(v)] = <<>>
        /\ current_callback[v] = <<"on_error", "pv1">>

\* C16: whatever a worker has dequeued was put on the queue named after it
\* when it is a named worker, and on the utility queue when it is a utility
\* worker; and a step in which a worker dequeues takes the head of that queue
\* and leaves every other queue as it was.
C16_QueuesPrivate ==
    /\ [](\A w \in Workers : \A q \in DOMAIN enq :
            (TakenIds(w) \cap Range(enq[q]) # {}) =>
                \/ q = w /\ w \in Range(NamedThreads)
                \/ q = UtilityQueue /\ w \in Range(UtilityNames))
    /\ [][\A w \in Workers :
            taken'[w] # taken[w] =>
                \E q \in DOMAIN queue :
                    /\ q = IF w \in Range(NamedThreads) THEN w
                                                         ELSE UtilityQueue
                    /\ queue[q] # <<>>
                    /\ taken'[w] = Append(taken[w], Head(queue[q]).id)
                    /\ queue'[q] = Tail(queue[q])
                    /\ \A r \in DOMAIN queue \ {q} : queue'[r] = queue[r]]_vars

\* a named worker has dequeued the task put on its queue and a utility
\* worker the task put on the utility queue
C16_Witness ==
    /\ \E w \in Range(NamedThreads) : Len(taken[w]) = 1 /\ Len(enq[w]) = 1
    /\ \E u \in Range(UtilityNames) :
        Len(taken[u]) = 1 /\ Len(enq[UtilityQueue]) = 1

\* C17: current_callback of a worker is None whenever the worker is not
\* inside a callback, and names the callback it is inside otherwise; so a
\* round of the monitor reports a callback only for a worker that is inside
\* one.
C17_CurrentCallbackIsCurrent ==
    /\ \A w \in Workers :
        IF pc[w] = "running"
        THEN /\ invoked[w] # <<>>
             /\ current_callback[w] # NoCallback
        ELSE current_callback[w] = NoCallback
    /\ \A e \in MonitorStatus :
        e[3] # NoCallback => pc[e[1]] = "running"

\* C19: once the event is set no worker begins a new poll; a task is dequeued
\* only by a poll, one task per poll, and the worker leaves the poll with it;
\* a worker at the loop test leaves the loop.  So each worker dequeues at most
\* one task after the event was set: of the tasks enqueued after stop() was
\* invoked a worker has dequeued at most one, and all workers together at
\* most as many as there are workers.
C19_AtMostOneMoreTask ==
    /\ [][\A w \in Workers :
            (stop_event /\ pc[w] # "get") => pc'[w] # "get"]_vars
    /\ [][\A w \in Workers :
            taken'[w] # taken[w] =>
                /\ pc[w] = "get" /\ pc'[w] # "get"
                /\ Len(taken'[w]) = Len(taken[w]) + 1]_vars
    /\ [][\A w \in Workers :
            (stop_event /\ pc[w] = "check")
                => pc'[w] \in {"check", "exited"}]_vars
    /\ [](stop_mark > 0 =>
            /\ \A w \in Workers :
                Cardinality({id \in TakenIds(w) : id >= stop_mark}) <= 1
            /\ Cardinality({id \in UNION {TakenIds(w) : w \in Workers} :
                                id >= stop_mark}) <= Cardinality(Workers))

\* both tasks were put on a named queue after stop() was invoked: the worker,
\* already polling, has dequeued the first and has exited, the second waits
C19_Witness ==
    /\ stop_mark = 1
    /\ \E w \in Range(NamedThreads) :
        /\ pc[w] = "exited"
        /\ taken[w] = <<1>>
        /\ Ids(queue[w]) = <<2>>

----------------------------------------------------------------------------
(* wrap_callback applied to every input, on a running and on a stopped      *)
(* dispatcher, and calls of what it returned                                *)

\* the state after construction, or the state after stop() has returned with
\* no task ever enqueued
InitWrap ==
    \/ Init
    \/ /\ stop_event = TRUE
       /\ threads = <<>>
       /\ queue = [q \in QueueIds |-> <<>>]
       /\ pc = [w \in Workers |-> "exited"]
       /\ current_callback = [w \in Workers |-> NoCallback]
       /\ stop_pc = "idle"
       /\ to_join = <<>>
       /\ stops = 1
       /\ held = NoneValue
       /\ wrap_call = <<None, NoneValue>>
       /\ last_call = NoCall
       /\ next_id = 1
       /\ enq = [q \in QueueIds |-> <<>>]
       /\ taken = [w \in Workers |-> <<>>]
       /\ invoked = [w \in Workers |-> <<>>]
       /\ stop_mark = 1
       /\ alive_pc = "idle"
       /\ to_scan = <<>>
       /\ alive_result = None

\* held(*args, **kwargs)
InvokeHeld(call) ==
    /\ next_id <= MaxCalls
    /\ Invoke(held, call)

NextWrap ==
    \/ \E e \in EventTypes, c \in PlainCallables \cup {NoneValue, held} :
            Wrap(e, c)
    \/ \E call \in CallArgs : InvokeHeld(call)

SpecWrap == InitWrap /\ [][NextWrap]_vars

----------------------------------------------------------------------------
(* Properties of wrap_callback and of the callables it returns (SpecWrap) *)

\* the number of tasks in all queues
QueuedTasks(n) ==
    Cardinality({<<q, i>> \in QueueIds \X (1..n) : i <= Len(queue[q])})

\* C6: wrapping the result of wrap_callback again returns that same callable;
\* so the held callable has one closure only, wrapping a wrapped callable left
\* it as it was, every call of it has enqueued exactly one task, and the
\* callback of that task is the plain callback, not a wrapped one.
C6_WrapIdempotent ==
    /\ \A e \in EventTypes : \A c \in PlainCallables :
        LET w == WrapCallback(threads, e, c) IN
            w # AssertionError => WrapCallback(threads, e, w) = w
    /\ Len(held.layers) <= 1
    /\ IsWrapped(wrap_call[2]) => held = wrap_call[2]
    /\ QueuedTasks(MaxCalls) = next_id - 1
    /\ \A q \in QueueIds : \A i \in 1..Len(queue[q]) :
        queue[q][i].callback \in PlainCallables

\* a callable that was wrapped twice has been called
C6_Witness ==
    /\ last_call.twice
    /\ IsWrapped(held)
    /\ queue[CallbackQueue(held)] # <<>>

\* C7: a call of the callable wrap_callback(d, k, c) returned appends the task
\* (c, args, kwargs) of that call to the tail of the queue of k and changes
\* nothing else: no worker state, no other queue, no callback called.
C7_CallOnlyEnqueues ==
    [][next_id' # next_id =>
        /\ IsWrapped(held)
        /\ ~IsWrapped(wrap_call[2]) =>
                CallbackQueue(held) = QueueOf(wrap_call[1])
        /\ queue' = [queue EXCEPT ![CallbackQueue(held)] =
                        Append(@, [id |-> next_id,
                                   callback |-> Plain(held.fn),
                                   args |-> last_call'.args,
                                   kwargs |-> last_call'.kwargs])]
        /\ last_call' \in {[args |-> c.args, kwargs |-> c.kwargs,
                            twice |-> t] : c \in CallArgs, t \in BOOLEAN}
        /\ UNCHANGED <<workerVars, stopVars, stop_event, threads, held,
                       wrap_call>>]_vars

\* the callable wrapped for util1 was called with a value and a pvname, and
\* the task waits in the utility queue
C7_Witness ==
    /\ wrap_call[1] = "util1"
    /\ Len(queue[UtilityQueue]) = 1
    /\ queue[UtilityQueue][1].args = <<1>>
    /\ queue[UtilityQueue][1].kwargs = {<<"pvname", "pv1">>}

\* C8 as written: wrap_callback for an event_type that is not in _threads ends
\* with the AssertionError, whatever the callback.
C8_UnregisteredAlwaysFails ==
    (wrap_call[1] # None /\ wrap_call[1] \notin Range(threads))
        => held = AssertionError

\* C8, amended: wrap_callback for an event_type that is not in _threads ends
\* with the AssertionError when the callback is neither None nor wrapped, and
\* returns the callback as it is otherwise; in both cases it puts nothing on a
\* queue.
C8_UnregisteredFailsUnlessSkipped ==
    /\ []((wrap_call[1] # None /\ wrap_call[1] \notin Range(threads)) =>
            held = IF wrap_call[2] = NoneValue \/ IsWrapped(wrap_call[2])
                   THEN wrap_call[2]
                   ELSE AssertionError)
    /\ [][wrap_call' # wrap_call => UNCHANGED <<queue, enq, next_id>>]_vars

\* wrap_callback failed for an unknown name, or for a known name on a stopped
\* dispatcher
C8_Witness ==
    /\ held = AssertionError
    /\ wrap_call[1] \notin Range(threads)
    /\ (wrap_call[1] = "bogus" \/ threads = <<>>)

\* C18: wrap_callback returns a callable that is already wrapped as it is,
\* for every event_type, in _threads or not; it stays bound to the queue of
\* the category it was first wrapped for, and a call of it puts the task on
\* that queue and leaves the queue of the later event_type alone.
C18_WrappedStaysBound ==
    /\ []((IsWrapped(held) /\ ~IsWrapped(wrap_call[2])) =>
            \A k2 \in EventTypes :
                /\ WrapCallback(threads, k2, held) = held
                /\ CallbackQueue(WrapCallback(threads, k2, held))
                        = QueueOf(wrap_call[1]))
    /\ [][(IsWrapped(held) /\ wrap_call' = <<wrap_call'[1], held>>)
            => held' = held]_vars
    /\ [][(next_id' # next_id /\ last_call'.twice) =>
            /\ enq' = [enq EXCEPT ![CallbackQueue(held)] = Append(@, next_id)]
            /\ \A q \in QueueIds \ {CallbackQueue(held)} :
                queue'[q] = queue[q]]_vars

\* a callable wrapped for one category and wrapped again for a category with
\* another queue was called: the task is on the first queue, the other queue
\* is empty
C18_Witness ==
    /\ last_call.twice
    /\ IsWrapped(held)
    /\ wrap_call[1] \in Workers
    /\ QueueOf(wrap_call[1]) # CallbackQueue(held)
    /\ Len(queue[CallbackQueue(held)]) = 1
    /\ queue[QueueOf(wrap_call[1])] = <<>>

----------------------------------------------------------------------------
(* is_alive() called at any moment of the running system (SpecAlive) *)

NextAlive ==
    \/ \E w \in Registered :
            next_id <= MaxObservedTasks /\ Invoke(w, EventCall)
    \/ \E c \in Callbacks :
            next_id <= MaxObservedTasks /\ ScheduleUtilityTask(c, UtilityCall)
    \/ \E w \in Workers : WorkerCheck(w)
    \/ \E w \in Workers : WorkerTimeout(w)
    \/ \E w \in Workers : WorkerGet(w)
    \/ \E w \in Workers : WorkerCallbackEnds(w)
    \/ StopBegin
    \/ StopJoin
    \/ StopReturn
    \/ IsAliveBegin
    \/ IsAliveScan

SpecAlive == Init /\ [][NextAlive]_vars

\* C11: no step of is_alive() changes _threads, a queue, the event, a worker,
\* stop() or the producer, whatever the others do between its steps; and the
\* value it returns is True exactly when a worker of _threads is alive in the
\* state it returns in.
C11_IsAliveObserves ==
    /\ [][aliveVars' # aliveVars =>
            UNCHANGED <<stop_event, threads, queue, workerVars, stopVars,
                        producerVars, next_id, enq>>]_vars
    /\ [][(alive_pc = "scan" /\ alive_pc' = "idle") =>
            alive_result' = Bool(IsAlive)]_vars

\* is_alive() has returned True while stop() was joining: the first thread of
\* its copy had exited and another was running a callback
C11_Witness ==
    /\ alive_pc = "idle"
    /\ alive_result = "True"
    /\ stop_pc = "joining"
    /\ pc[Head(ThreadNames)] = "exited"
    /\ \E w \in Workers : pc[w] = "running"

----------------------------------------------------------------------------
(* The running system under fair scheduling (SpecFair): every thread that   *)
(* can take a step eventually takes one, and a callback that was called     *)
(* eventually returns or raises.  Nothing obliges the producer to enqueue   *)
(* or the controller to call stop().                                        *)

NextFair ==
    \/ \E w \in Registered :
            next_id <= MaxFairTasks /\ Invoke(w, EventCall)
    \/ \E c \in Callbacks :
            next_id <= MaxFairTasks /\ ScheduleUtilityTask(c, UtilityCall)
    \/ \E w \in Workers : WorkerCheck(w)
    \/ \E w \in Workers : WorkerTimeout(w)
    \/ \E w \in Workers : WorkerGet(w)
    \/ \E w \in Workers : WorkerCallbackEnds(w)
    \/ StopBegin
    \/ StopJoin
    \/ StopReturn

\* the operating system schedules every worker thread and the thread inside
\* stop(); queue.get(True, timeout) returns or times out; a callback ends
Fairness ==
    /\ \A w \in Workers :
        /\ WF_vars(WorkerCheck(w))
        /\ WF_vars(WorkerTimeout(w))
        /\ WF_vars(WorkerGet(w))
        /\ WF_vars(WorkerCallbackEnds(w))
    /\ WF_vars(StopJoin)
    /\ WF_vars(StopReturn)

SpecFair == Init /\ [][NextFair]_vars /\ Fairness

\* C12: once stop() is invoked, every worker eventually ends and stop()
\* eventually returns; after the signal a worker that is back at the loop
\* test, from a timeout or from a callback, leaves the loop with its next
\* step, and the timeout needs no task; stop() never returns while a worker
\* is alive, so not while one is executing a callback.
C12_StopTerminates ==
    /\ stop_event ~> (\A w \in Workers : ~ThreadAlive(w))
    /\ (stop_pc = "joining") ~> (stop_pc = "idle" /\ stops >= 1)
    /\ [][\A w \in Workers :
            (stop_event /\ pc[w] = "check" /\ pc'[w] # pc[w])
                => pc'[w] = "exited"]_vars
    /\ [](\A w \in Workers :
            (pc[w] = "get" /\ queue[QueueOf(w)] = <<>>)
                => ENABLED WorkerTimeout(w))
    /\ [][stops' # stops => \A w \in Workers : ~ThreadAlive(w)]_vars

\* stop() has returned after every task was enqueued: one worker had called a
\* callback and has ended, another has ended without ever getting a task
C12_Witness ==
    /\ stops >= 1
    /\ stop_mark = MaxFairTasks + 1
    /\ \E w \in Workers : invoked[w] # <<>> /\ pc[w] = "exited"
    /\ \E w \in Workers : taken[w] = <<>> /\ pc[w] = "exited"

\* C15: under fair scheduling, every task that was enqueued eventually has
\* its callback called by a worker, unless stop() is invoked.
C15_EveryTaskExecuted ==
    \A id \in 1..MaxFairTasks :
        (\E q \in QueueIds : id \in Range(enq[q])) ~>
            (stop_event \/ \E w \in Workers : id \in Range(invoked[w]))

----------------------------------------------------------------------------
(* The running system, fairly scheduled, in which one callback may block    *)
(* forever (SpecHang); stop() is not called                                 *)

NextHang ==
    \/ \E w \in Registered :
            next_id <= MaxHangTasks /\ Invoke(w, EventCall)
    \/ \E c \in Callbacks :
            next_id <= MaxHangTasks /\ ScheduleUtilityTask(c, UtilityCall)
    \/ \E w \in Workers : WorkerCheck(w)
    \/ \E w \in Workers : WorkerTimeout(w)
    \/ \E w \in Workers : WorkerGet(w)
    \/ \E w \in Workers : WorkerCallbackEnds(w)
    \/ \E w \in Workers : Hang(w)

SpecHang == Init /\ [][NextHang]_vars /\ Fairness

\* the workers inside a callback that blocks forever, and the workers bound
\* to a queue
Hung == {w \in Workers : pc[w] = "hung"}

Readers(q) == {w \in Workers : QueueOf(w) = q}

\* a task waits in a queue that has a worker other than the hung one
WaitsBesideHang(id) ==
    /\ Hung # {}
    /\ \E q \in QueueIds : id \in PendingIds(q) /\ Readers(q) \ Hung # {}

=============================================================================
